---- MODULE Spec2Model ----
(***************************************************************************)
(* cc2lc: export of a chess.com account's monthly game archives to         *)
(* lichess, with a local sqlite database (tables months, games,            *)
(* month_games) recording what has been exported.  Model of src/cc2lc.py.  *)
(***************************************************************************)
EXTENDS Integers, Sequences, FiniteSets, TLC

(* ------------------------------ bounds --------------------------------- *)
\* number of distinct game uuids the source can serve
NumUuids == 2
\* number of games the source serves, all archives together
MaxEntries == 2
\* longest archive listing
MaxParts == 2
\* number of program runs
MaxRuns == 2
\* longest streak of 429 answers to one import
MaxRetry == 2
\* longest list most_recent_month is exercised on
MaxMonths == 3
\* longest list of urls archive_url_extract_month is exercised on
MaxRefs == 3

Uuids == 1..NumUuids

(* ------------------------------ Month ---------------------------------- *)
\* class Month: a (month, year) pair
Month(m, y) == [month |-> m, year |-> y]

\* Month.__lt__
Month_lt(self, other) ==
    IF self.year < other.year THEN TRUE ELSE self.month < other.month

\* Month.__eq__
Month_eq(self, other) == self.year = other.year /\ self.month = other.month

\* the months the comparator is exercised on
CmpYears == {2022, 2023, 2024}
CmpMonths == {1, 2, 11, 12}
CmpSet == {Month(m, y) : m \in CmpMonths, y \in CmpYears}

\* the archive urls the source can list, each as url.split('/') sees it
ArchiveSet ==
    {<<"games", "2022", "12">>, <<"games", "2023", "01">>,
     <<"games", "2023", "jan">>}

\* the urls archive_url_extract_month is exercised on
RefSet ==
    ArchiveSet \cup
    {<<"games", "2023", "0">>, <<"games", "-1", "12">>, <<"2023">>}

\* the strings int() takes as a number, among the parts of these urls
IntLiterals == {"2022", "2023", "12", "01", "0", "-1"}

\* int(s) of such a string
IntOf(s) ==
    CASE s = "2022" -> 2022
      [] s = "2023" -> 2023
      [] s = "12" -> 12
      [] s = "01" -> 1
      [] s = "0" -> 0
      [] s = "-1" -> -1

\* lines 70-72: parts[-2] is out of range (IndexError) or int() raises
\* (ValueError)
ExtractRaises(url) ==
    \/ Len(url) < 2
    \/ url[Len(url) - 1] \notin IntLiterals
    \/ url[Len(url)] \notin IntLiterals

\* archive_url_extract_month, where it does not raise
archive_url_extract_month(url) ==
    Month(IntOf(url[Len(url)]), IntOf(url[Len(url) - 1]))

(* ------------------------------ state ---------------------------------- *)
VARIABLES
    \* chess.com
    listing,          \* the archives endpoint: sequence of archive urls
    src,              \* the games endpoint: archive url -> sequence of game uuids
    \* lichess
    sinkLog,          \* pgns lichess has imported, in order; the url of an import is its index
    \* sqlite
    games,            \* table games: rows [uuid, pgn, lc_url, result], id = index
    months,           \* table months: rows Month, id = index
    month_games,      \* table month_games: rows [game_id, month_id]
    \* the running script
    pc,               \* position of the script
    archives,         \* the list read at line 188 (months at line 189 is its parse)
    idx,              \* position of the loop of line 191 in archives
    fetched,          \* export_month: games
    gi,               \* export_month: position of the loop of line 129
    uuids,            \* export_month: uuids
    games_response,   \* export_month: status of games_response, 0 when there is none
    import_response,  \* export_to_lc: import_response, [status, url]
    lc_url,           \* export_month: lc_url
    li,               \* export_month: position of the loop of line 164
    n429,             \* 429 answers received for the import under way
    \* history
    runs,             \* runs started
    lastEnd,          \* how the last run ended
    doneAtStart,      \* archives that had a months row when the run started
    passStart,        \* what export_month found when it was called
    fetchedRun,       \* archives whose games this run fetched
    lost,             \* uuid -> imports lichess accepted whose row was never committed
    okSnap,           \* store after a normally ended run, while the source is as that run saw it
    stable,           \* normally ended runs in a row over an unchanged source
    \* comparator harness
    cmpA, cmpB, cmpRes,
    \* most_recent_month harness
    mrList, mrRes,
    \* result harness
    resW, resB, resOut,
    \* archive url harness
    refList, refRes

srcVars == <<listing, src>>
dbVars == <<games, months, month_games>>
localVars == <<archives, idx, fetched, gi, uuids, games_response, import_response,
              lc_url, li, n429>>
histVars == <<runs, lastEnd, doneAtStart, passStart, fetchedRun, lost, okSnap, stable>>
cmpVars == <<cmpA, cmpB, cmpRes, mrList, mrRes, resW, resB, resOut, refList, refRes>>
vars == <<srcVars, sinkLog, dbVars, pc, localVars, histVars, cmpVars>>

None == [none |-> TRUE]
NoResponse == [status |-> 0, url |-> 0]

\* the fields of a game the source serves: game['pgn'],
\* game['white']['result'], game['black']['result']
Pgn(uuid) == <<"pgn", uuid>>
WhiteResult(uuid) == IF uuid = 1 THEN "win" ELSE "resigned"
BlackResult(uuid) == IF uuid = 2 THEN "win" ELSE "checkmated"

\* lines 144-149 with black looked at first
GameResult_BlackFirst(white_result, black_result) ==
    IF black_result = "win" THEN "black"
    ELSE IF white_result = "win" THEN "white"
    ELSE "draw"

\* lines 144-149: result
GameResult(white_result, black_result) ==
    IF white_result = "win" THEN "white"
    ELSE IF black_result = "win" THEN "black"
    ELSE "draw"

Store == [games |-> games, months |-> months, month_games |-> month_games]
Snapshot == [store |-> Store, log |-> Len(sinkLog)]

Range(s) == {s[i] : i \in 1..Len(s)}

(* --------------------------- store queries ----------------------------- *)
\* SELECT * from games WHERE uuid = ?  : the ids of the rows
GamesWhere(uuid) == {i \in 1..Len(games) : games[i].uuid = uuid}

\* SELECT * from months WHERE month = ? AND year = ?  : the ids of the rows
MonthsWhere(month) ==
    {i \in 1..Len(months) :
        months[i].month = month.month /\ months[i].year = month.year}

\* SELECT * from month_games WHERE game_id = ?  : the ids of the rows
MonthGamesWhere(game_id) ==
    {i \in 1..Len(month_games) : month_games[i].game_id = game_id}

\* fetchone()[0] of a SELECT id: the first row's id, 0 where fetchone() is None
FetchOne(ids) ==
    IF ids = {} THEN 0 ELSE CHOOSE i \in ids : \A j \in ids : i <= j

\* is_game_exported answering False whatever the table holds
is_game_exported_Never(uuid) == FALSE

\* is_game_exported
is_game_exported(uuid) == Cardinality(GamesWhere(uuid)) > 0

\* is_month_inserted answering False whatever the table holds
is_month_inserted_Never(month) == FALSE

\* is_month_inserted
is_month_inserted(month) == Cardinality(MonthsWhere(month)) > 0

\* is_game_associated answering True whatever the table holds
is_game_associated_Always(game_id) == TRUE

\* is_game_associated answering False whatever the table holds
is_game_associated_Never(game_id) == FALSE

\* is_game_associated
is_game_associated(game_id) == Cardinality(MonthGamesWhere(game_id)) > 0

(* ------------------------------ Init ----------------------------------- *)
InitLocals ==
    /\ archives = <<>> /\ idx = 0 /\ fetched = <<>> /\ gi = 0 /\ uuids = <<>>
    /\ games_response = 0
    /\ import_response = NoResponse /\ lc_url = 0 /\ li = 0 /\ n429 = 0

InitSync ==
    /\ listing = <<>>
    /\ src = [a \in ArchiveSet |-> <<>>]
    /\ sinkLog = <<>>
    /\ games = <<>> /\ months = <<>> /\ month_games = <<>>
    /\ pc = "idle"
    /\ InitLocals
    /\ runs = 0 /\ lastEnd = "none"
    /\ doneAtStart = {} /\ passStart = None /\ fetchedRun = {}
    /\ lost = [u \in Uuids |-> 0]
    /\ okSnap = None /\ stable = 0

\* the harnesses at rest
IdleCmp == cmpA = Month(1, 2023) /\ cmpB = Month(1, 2023) /\ cmpRes = None
IdleRecent == mrList = <<>> /\ mrRes = None
IdleResult == resW = "win" /\ resB = "win" /\ resOut = None
IdleRefs == refList = <<>> /\ refRes = None

Init ==
    /\ InitSync
    /\ IdleCmp /\ IdleRecent /\ IdleResult /\ IdleRefs

ResetLocals ==
    /\ archives' = <<>> /\ idx' = 0 /\ fetched' = <<>> /\ gi' = 0 /\ uuids' = <<>>
    /\ games_response' = 0
    /\ import_response' = NoResponse /\ lc_url' = 0 /\ li' = 0 /\ n429' = 0

\* the script ends with an exception or is killed: only the database and
\* what lichess imported survive
Abort(how) ==
    /\ pc' = "idle"
    /\ ResetLocals
    /\ lastEnd' = how
    /\ okSnap' = None /\ stable' = 0
    /\ doneAtStart' = {} /\ passStart' = None /\ fetchedRun' = {}
    /\ UNCHANGED <<srcVars, sinkLog, dbVars, cmpVars>>

(* ------------------------------ chess.com ------------------------------ *)
\* the games the source serves, all archives together
RECURSIVE SumLen(_)
SumLen(S) ==
    IF S = {} THEN 0
    ELSE LET a == CHOOSE x \in S : TRUE IN Len(src[a]) + SumLen(S \ {a})
Entries == SumLen(ArchiveSet)
ServedUuids == UNION {Range(src[a]) : a \in ArchiveSet}

\* a new archive appears in the listing (between two runs)
AddArchive(a) ==
    /\ pc = "idle" /\ runs < MaxRuns
    /\ a \notin Range(listing)
    /\ Len(listing) < MaxParts
    /\ listing' = Append(listing, a)
    /\ okSnap' = None /\ stable' = 0 /\ lastEnd' = "none"
    /\ UNCHANGED <<src, sinkLog, dbVars, pc, localVars, runs, doneAtStart,
                   passStart, fetchedRun, lost, cmpVars>>

\* a game is added to a listed archive (between two runs); uuids are
\* interchangeable, so a uuid not served yet is the least one
AppendGame(a, u) ==
    /\ pc = "idle" /\ runs < MaxRuns
    /\ a \in Range(listing)
    /\ Entries < MaxEntries
    /\ u <= Cardinality(ServedUuids) + 1
    /\ src' = [src EXCEPT ![a] = Append(@, u)]
    /\ okSnap' = None /\ stable' = 0 /\ lastEnd' = "none"
    /\ UNCHANGED <<listing, sinkLog, dbVars, pc, localVars, runs, doneAtStart,
                   passStart, fetchedRun, lost, cmpVars>>

(* ------------------------------ main ----------------------------------- *)
\* line 189: months[i], the Month of archives[i]
MonthAt(i) == archive_url_extract_month(archives[i])

\* lines 173-189: get_db() (tables exist: no change), the archives are listed
\* and every url is parsed
StartRun ==
    /\ pc = "idle" /\ runs < MaxRuns
    /\ \A i \in 1..Len(listing) : ~ExtractRaises(listing[i])
    /\ runs' = runs + 1
    /\ archives' = listing
    /\ idx' = 1
    /\ pc' = "loop"
    /\ lastEnd' = "running"
    /\ doneAtStart' = {a \in ArchiveSet :
                         ~ExtractRaises(a) /\ MonthsWhere(archive_url_extract_month(a)) # {}}
    /\ UNCHANGED <<passStart, fetchedRun>>
    /\ UNCHANGED <<srcVars, sinkLog, dbVars, fetched, gi, uuids, import_response, games_response,
                   lc_url, li, n429, lost, okSnap, stable, cmpVars>>

\* line 187: archive_response.raise_for_status() raises
StartRunFail ==
    /\ pc = "idle" /\ runs < MaxRuns
    /\ runs' = runs + 1
    /\ lastEnd' = "source"
    /\ okSnap' = None /\ stable' = 0
    /\ UNCHANGED <<srcVars, sinkLog, dbVars, pc, localVars, doneAtStart, passStart,
                   fetchedRun, lost, cmpVars>>

\* line 189: archive_url_extract_month raises for a listed url
StartRunMalformed ==
    /\ pc = "idle" /\ runs < MaxRuns
    /\ \E i \in 1..Len(listing) : ExtractRaises(listing[i])
    /\ runs' = runs + 1
    /\ lastEnd' = "value"
    /\ okSnap' = None /\ stable' = 0
    /\ UNCHANGED <<srcVars, sinkLog, dbVars, pc, localVars, doneAtStart, passStart,
                   fetchedRun, lost, cmpVars>>

\* line 191 exhausted, line 194: conn.close()
EndRun ==
    /\ pc = "loop" /\ idx > Len(archives)
    /\ pc' = "idle"
    /\ ResetLocals
    /\ lastEnd' = "ok"
    /\ okSnap' = IF stable = 0 THEN Snapshot ELSE okSnap
    /\ stable' = IF stable < 2 THEN stable + 1 ELSE stable
    /\ doneAtStart' = {} /\ passStart' = None /\ fetchedRun' = {}
    /\ UNCHANGED <<srcVars, sinkLog, dbVars, runs, lost, cmpVars>>

(* --------------------------- export_month ------------------------------ *)
\* raise_for_status that never raises
RaisesForStatus_Never(status) == FALSE

\* lines 99, 125, 187: raise_for_status raises for 4xx and 5xx
RaisesForStatus(status) == status >= 400 /\ status < 600

\* the games endpoint answering with no games for a month that has its row
GamesOf_SkipInserted(url) ==
    IF MonthsWhere(archive_url_extract_month(url)) # {} THEN <<>> ELSE src[url]

\* lines 124-126: the games the endpoint serves for the archive url
GamesOf(url) == src[url]

\* the statuses the games endpoint answers with
SourceStatuses == {200, 500}

\* lines 191-192, 124: export_month is called for the next archive and
\* requests.get answers
GetGames(s) ==
    /\ pc = "loop" /\ idx <= Len(archives)
    /\ games_response' = s
    /\ pc' = "got"
    /\ UNCHANGED <<srcVars, sinkLog, dbVars, archives, idx, fetched, gi, uuids,
                   import_response, lc_url, li, n429, histVars, cmpVars>>

\* lines 125-128: raise_for_status passes, the games are read
FetchGames ==
    /\ pc = "got" /\ ~RaisesForStatus(games_response)
    /\ games_response' = 0
    /\ fetched' = GamesOf(archives[idx])
    /\ uuids' = <<>>
    /\ gi' = 1
    /\ pc' = "games"
    /\ passStart' =
         [rec |-> {u \in Range(src[archives[idx]]) : GamesWhere(u) # {}},
          linked |-> {u \in Range(src[archives[idx]]) :
                        \E g \in GamesWhere(u) : MonthGamesWhere(g) # {}},
          done |-> MonthsWhere(MonthAt(idx)) # {},
          log |-> Len(sinkLog)]
    /\ fetchedRun' = fetchedRun \cup {archives[idx]}
    /\ UNCHANGED <<srcVars, sinkLog, dbVars, archives, idx, import_response, lc_url,
                   li, n429, runs, lastEnd, doneAtStart, lost, okSnap, stable, cmpVars>>

\* line 125: games_response.raise_for_status() raises
FetchGamesFail ==
    /\ pc = "got" /\ RaisesForStatus(games_response)
    /\ Abort("fetch")
    /\ UNCHANGED <<runs, lost>>

\* line 129 with the last game of the list left out
GamesDone_SkipLast == gi >= Len(fetched)

\* line 129: the loop over games is exhausted
GamesDone == gi > Len(fetched)

\* lines 129-134: the game has a row already
SkipGame ==
    /\ pc = "games" /\ ~GamesDone /\ gi <= Len(fetched)
    /\ is_game_exported(fetched[gi])
    /\ uuids' = Append(uuids, fetched[gi])
    /\ gi' = gi + 1
    /\ UNCHANGED <<srcVars, sinkLog, dbVars, pc, archives, idx, fetched,
                   import_response, games_response, lc_url, li, n429, histVars, cmpVars>>

\* lines 129-149: the game has no row, its fields are read
BeginExport ==
    /\ pc = "games" /\ ~GamesDone /\ gi <= Len(fetched)
    /\ ~is_game_exported(fetched[gi])
    /\ uuids' = Append(uuids, fetched[gi])
    /\ n429' = 0
    /\ pc' = "post"
    /\ UNCHANGED <<srcVars, sinkLog, dbVars, archives, idx, fetched, gi,
                   import_response, games_response, lc_url, li, histVars, cmpVars>>

(* --------------------------- export_to_lc ------------------------------ *)
Statuses == {200, 429, 500}

\* lines 93 and 98: requests.post of the pgn; lichess answers
Post(s) ==
    /\ pc = "post"
    /\ s = 429 => n429 < MaxRetry
    /\ sinkLog' = IF s = 200 THEN Append(sinkLog, Pgn(fetched[gi])) ELSE sinkLog
    /\ import_response' =
         [status |-> s, url |-> IF s = 200 THEN Len(sinkLog) + 1 ELSE 0]
    /\ n429' = IF s = 429 THEN n429 + 1 ELSE n429
    /\ pc' = "resp"
    /\ UNCHANGED <<srcVars, dbVars, archives, idx, fetched, gi, uuids,
                   games_response, lc_url, li, histVars, cmpVars>>

\* line 94 as an if: one retry only
RateLimited_Once == import_response.status = 429 /\ n429 <= 1

\* line 94: while import_response.status_code == 429
RateLimited == import_response.status = 429

\* lines 94-97: rate limited, sleep, post again
Retry ==
    /\ pc = "resp" /\ RateLimited
    /\ pc' = "post"
    /\ UNCHANGED <<srcVars, sinkLog, dbVars, localVars, histVars, cmpVars>>

\* line 99: raise_for_status raises, the script ends
Reject ==
    /\ pc = "resp" /\ ~RateLimited
    /\ RaisesForStatus(import_response.status)
    /\ Abort("sink")
    /\ UNCHANGED <<runs, lost>>

\* lines 99-101, 150: the url of the import is returned
Accept ==
    /\ pc = "resp" /\ ~RateLimited
    /\ ~RaisesForStatus(import_response.status)
    /\ lc_url' = import_response.url
    /\ pc' = "insert"
    /\ UNCHANGED <<srcVars, sinkLog, dbVars, archives, idx, fetched, gi, uuids,
                   import_response, games_response, li, n429, histVars, cmpVars>>

(* ---------------------- export_month, continued ------------------------ *)
\* lines 152-158: INSERT INTO games, commit
InsertGame ==
    /\ pc = "insert"
    /\ games' = Append(games,
                       [uuid |-> fetched[gi], pgn |-> Pgn(fetched[gi]),
                        lc_url |-> lc_url,
                        result |-> GameResult(WhiteResult(fetched[gi]),
                                              BlackResult(fetched[gi]))])
    /\ gi' = gi + 1
    /\ pc' = "games"
    /\ UNCHANGED <<srcVars, sinkLog, months, month_games, archives, idx, fetched,
                   uuids, import_response, games_response, lc_url, li, n429, histVars, cmpVars>>

\* lines 159-163: the month gets its row unless it has one
MarkMonth ==
    /\ pc = "games" /\ GamesDone
    /\ months' = IF is_month_inserted(MonthAt(idx)) THEN months
                 ELSE Append(months, MonthAt(idx))
    /\ li' = 1
    /\ pc' = "link"
    /\ UNCHANGED <<srcVars, sinkLog, games, month_games, archives, idx, fetched, gi,
                   uuids, import_response, games_response, lc_url, n429, histVars, cmpVars>>

\* lines 164-169: the game is associated with the month unless it is with one
LinkGame ==
    /\ pc = "link" /\ li <= Len(uuids)
    /\ LET game_id == FetchOne(GamesWhere(uuids[li]))
           month_id == FetchOne(MonthsWhere(MonthAt(idx)))
       IN  IF game_id = 0
           THEN \* fetchone() is None: TypeError
                /\ Abort("type")
                /\ UNCHANGED <<runs, lost>>
           ELSE /\ month_games' =
                     IF is_game_associated(game_id) THEN month_games
                     ELSE Append(month_games, [game_id |-> game_id,
                                               month_id |-> month_id])
                /\ li' = li + 1
                /\ UNCHANGED <<srcVars, sinkLog, games, months, pc, archives, idx,
                               fetched, gi, uuids, import_response, games_response, lc_url, n429,
                               histVars, cmpVars>>

\* line 170: export_month returns, the loop of line 191 goes on
EndMonth ==
    /\ pc = "link" /\ li > Len(uuids)
    /\ idx' = idx + 1
    /\ pc' = "loop"
    /\ UNCHANGED <<srcVars, sinkLog, dbVars, archives, fetched, gi, uuids,
                   import_response, games_response, lc_url, li, n429, histVars, cmpVars>>

\* lichess has accepted the import under way and its row is not committed
InFlight ==
    \/ pc = "insert"
    \/ pc = "resp" /\ import_response.status = 200

\* the process is killed
Crash ==
    /\ pc # "idle"
    /\ Abort("crash")
    /\ lost' = IF InFlight THEN [lost EXCEPT ![fetched[gi]] = @ + 1] ELSE lost
    /\ UNCHANGED runs

(* --------------------------- specification ----------------------------- *)
Next ==
    \/ \E a \in ArchiveSet : AddArchive(a)
    \/ \E a \in ArchiveSet, u \in Uuids : AppendGame(a, u)
    \/ StartRun
    \/ StartRunFail
    \/ StartRunMalformed
    \/ EndRun
    \/ \E s \in SourceStatuses : GetGames(s)
    \/ FetchGames
    \/ FetchGamesFail
    \/ SkipGame
    \/ BeginExport
    \/ \E s \in Statuses : Post(s)
    \/ Retry
    \/ Reject
    \/ Accept
    \/ InsertGame
    \/ MarkMonth
    \/ LinkGame
    \/ EndMonth
    \/ Crash

Spec == Init /\ [][Next]_vars

(* ---------------------- comparator harness ----------------------------- *)
InitCmp ==
    /\ InitSync
    /\ cmpA \in CmpSet /\ cmpB \in CmpSet /\ cmpRes = None
    /\ IdleRecent /\ IdleResult /\ IdleRefs

\* a < b, b < a and a == b are evaluated
Compare ==
    /\ cmpRes = None
    /\ cmpRes' = [lt |-> Month_lt(cmpA, cmpB), gt |-> Month_lt(cmpB, cmpA),
                  eq |-> Month_eq(cmpA, cmpB)]
    /\ UNCHANGED <<srcVars, sinkLog, dbVars, pc, localVars, histVars, cmpA, cmpB,
                   mrList, mrRes, resW, resB, resOut, refList, refRes>>

NextCmp == Compare

SpecCmp == InitCmp /\ [][NextCmp]_vars

(* -------------------- most_recent_month harness ------------------------ *)
\* lines 78-80: the loop from position k on, i the index held so far
\* (indices count from 0 as in the code)
RECURSIVE MostRecentScan(_, _, _)
MostRecentScan(list, k, i) ==
    IF k > Len(list) THEN i
    ELSE MostRecentScan(list, k + 1,
                        IF Month_lt(list[k], list[i + 1]) THEN k - 1 ELSE i)

\* most_recent_month: the index it returns
most_recent_month(list) == MostRecentScan(list, 1, 0)

\* the lists of months of length n
SeqsOfLen(n) == [1..n -> CmpSet]

InitRecent ==
    /\ InitSync
    /\ IdleCmp /\ IdleResult /\ IdleRefs
    /\ mrList \in UNION {SeqsOfLen(n) : n \in 0..MaxMonths}
    /\ mrRes = None

\* most_recent_month(mrList) is evaluated
FindMostRecent ==
    /\ mrRes = None
    /\ mrRes' = [index |-> most_recent_month(mrList)]
    /\ UNCHANGED <<srcVars, sinkLog, dbVars, pc, localVars, histVars, cmpA, cmpB,
                   cmpRes, mrList, resW, resB, resOut, refList, refRes>>

NextRecent == FindMostRecent

SpecRecent == InitRecent /\ [][NextRecent]_vars

(* --------------------------- result harness ---------------------------- *)
\* result codes of game['white']['result'] and game['black']['result']
ResultCodes ==
    {"win", "checkmated", "agreed", "repetition", "timeout", "resigned",
     "stalemate", "lose", "insufficient", "50move", "abandoned"}

InitResult ==
    /\ InitSync
    /\ IdleCmp /\ IdleRecent /\ IdleRefs
    /\ resW \in ResultCodes /\ resB \in ResultCodes /\ resOut = None

\* the result of a game with these two codes is derived
DeriveResult ==
    /\ resOut = None
    /\ resOut' = [result |-> GameResult(resW, resB)]
    /\ UNCHANGED <<srcVars, sinkLog, dbVars, pc, localVars, histVars, cmpA, cmpB,
                   cmpRes, mrList, mrRes, resW, resB, refList, refRes>>

NextResult == DeriveResult

SpecResult == InitResult /\ [][NextResult]_vars

(* ------------------------- archive url harness ------------------------- *)
\* the lists of urls of length n
RefSeqsOfLen(n) == [1..n -> RefSet]

InitRefs ==
    /\ InitSync
    /\ IdleCmp /\ IdleRecent /\ IdleResult
    /\ refList \in UNION {RefSeqsOfLen(n) : n \in 0..MaxRefs}
    /\ refRes = None

\* line 189: months = list(map(archive_url_extract_month, archives)), which
\* raises when one url does; otherwise lines 191-192 export every one of them
ParseListing ==
    /\ refRes = None
    /\ refRes' =
         IF \E i \in 1..Len(refList) : ExtractRaises(refList[i])
         THEN [raised |-> TRUE, months |-> <<>>]
         ELSE [raised |-> FALSE,
               months |-> [i \in 1..Len(refList) |->
                              archive_url_extract_month(refList[i])]]
    /\ UNCHANGED <<srcVars, sinkLog, dbVars, pc, localVars, histVars, cmpA, cmpB,
                   cmpRes, mrList, mrRes, resW, resB, resOut, refList>>

NextRefs == ParseListing

SpecRefs == InitRefs /\ [][NextRefs]_vars

TypeOK ==
    /\ pc \in {"idle", "loop", "got", "games", "post", "resp", "insert", "link"}
    /\ runs \in 0..MaxRuns
    /\ stable \in 0..2

(* ------------------------------ claims --------------------------------- *)
\* the year-major, month-minor order the claims speak of
ChronoLess(a, b) == a.year < b.year \/ (a.year = b.year /\ a.month < b.month)

\* the most recent archive of a non-empty list under that order
MostRecent(list) ==
    CHOOSE a \in Range(list) :
        \A b \in Range(list) :
            b = a \/ ChronoLess(archive_url_extract_month(b),
                                archive_url_extract_month(a))

\* imports of the game lichess has accepted
Accepted(u) == Cardinality({i \in 1..Len(sinkLog) : sinkLog[i] = Pgn(u)})

\* an import is under way
Importing == pc \in {"post", "resp", "insert"}

\* the run has processed its last archive and is about to end normally
RunDone == pc = "loop" /\ idx > Len(archives)

\* export_month has linked its last game and is about to return
PassDone == pc = "link" /\ li > Len(uuids)

\* C1: once a run has ended normally, and for as long as the source stays as
\* that run saw it, the store keeps the contents that run left (through the
\* whole next run and after its normal end) and no import is submitted.
C1_SecondRunChangesNothing ==
    okSnap # None =>
        /\ Store = okSnap.store
        /\ Len(sinkLog) = okSnap.log
        /\ ~Importing

\* C1 witness: a second run in a row has ended normally over an unchanged
\* source that serves games in a listed archive.
C1_Witness ==
    /\ stable = 2 /\ pc = "idle"
    /\ Len(games) >= 2 /\ Len(months) >= 1 /\ Len(month_games) >= 2

\* C2 as claimed: over any sequence of runs, crashed ones included, lichess
\* accepts at most one import of each game.
C2_AtMostOneImport == \A u \in Uuids : Accepted(u) <= 1

\* C2 amended: a game that has a row in games is never submitted again, and
\* lichess accepts at most one import of a game plus one for each run that
\* ended between lichess accepting the game and the commit of its row.
C2_OneImportPerCommit ==
    /\ Importing => GamesWhere(fetched[gi]) = {}
    /\ \A u \in Uuids : Accepted(u) <= 1 + lost[u]

\* C2 witness: a game accepted twice, once in a run killed before the commit,
\* now has its row.
C2_Witness ==
    \E u \in Uuids : lost[u] = 1 /\ Accepted(u) = 2 /\ GamesWhere(u) # {}

\* C3 as claimed: an archive that is not the most recent of the listing and
\* had its months row when the run started is not fetched in that run.
C3_CompletedNotFetched ==
    \A a \in fetchedRun : a \in doneAtStart => a = MostRecent(archives)

\* C4: a run that ends normally has fetched the most recent archive of its
\* listing, and every game the source serves for that archive has a row,
\* also when the archive had its months row before the run.
C4_MostRecentReprocessed ==
    (RunDone /\ archives # <<>>) =>
        /\ MostRecent(archives) \in fetchedRun
        /\ \A u \in Range(src[MostRecent(archives)]) : GamesWhere(u) # {}

\* C4 witness: the run ends normally, its last archive is the most recent
\* one, had its months row when export_month was called, and a game of it
\* that had no row then has one now.
C4_Witness ==
    /\ RunDone /\ archives # <<>>
    /\ archives[Len(archives)] = MostRecent(archives)
    /\ MostRecent(archives) \in doneAtStart
    /\ passStart # None /\ passStart.done
    /\ \E u \in Range(src[MostRecent(archives)]) :
          u \notin passStart.rec /\ GamesWhere(u) # {}

\* C5: a step that adds a months row is taken only when every game of the
\* list fetched in this call of export_month has a row in games.
C5_CompleteOnlyWhenRecorded ==
    [][months' # months => \A u \in Range(fetched) : GamesWhere(u) # {}]_vars

\* C5 witness: export_month has written the months row of an archive whose
\* fetched list is not empty.
C5_Witness ==
    /\ pc = "link" /\ fetched # <<>>
    /\ passStart # None /\ ~passStart.done
    /\ MonthsWhere(MonthAt(idx)) # {}

\* C6: when export_month is called for an archive that has no months row and
\* whose fetched games G include a set S that have rows, none of them linked,
\* then no game of S is submitted, and when the call returns lichess has
\* accepted in this call exactly the games of G \ S, once each, the archive
\* has its months row and every game of G is linked to it.
C6_CrashResumption ==
    (passStart # None /\ ~passStart.done /\ passStart.linked = {}) =>
        /\ Importing => fetched[gi] \notin passStart.rec
        /\ PassDone =>
             LET G == Range(fetched)
                 S == passStart.rec
                 new == SubSeq(sinkLog, passStart.log + 1, Len(sinkLog))
                 month_id == FetchOne(MonthsWhere(MonthAt(idx)))
             IN  /\ Range(new) = {Pgn(u) : u \in G \ S}
                 /\ Len(new) = Cardinality(G \ S)
                 /\ month_id # 0
                 /\ \A u \in G :
                      \E k \in 1..Len(month_games) :
                         /\ month_games[k].game_id \in GamesWhere(u)
                         /\ month_games[k].month_id = month_id

\* C6 witness: export_month returns for an archive that had no months row,
\* with some of its games recorded beforehand and another imported now.
C6_Witness ==
    /\ PassDone
    /\ passStart # None /\ ~passStart.done /\ passStart.linked = {}
    /\ passStart.rec # {}
    /\ Range(fetched) \ passStart.rec # {}

\* C7: the months table never holds two rows of the same (month, year), and
\* marking an archive that has its row adds no row and raises no error:
\* export_month goes on to the linking.
C7_OneRowPerMonth ==
    /\ [](\A i, j \in 1..Len(months) :
             (months[i].month = months[j].month /\ months[i].year = months[j].year)
                => i = j)
    /\ [][(pc = "games" /\ GamesDone /\ MonthsWhere(MonthAt(idx)) # {}
              /\ lastEnd' # "crash")
             => (months' = months /\ pc' = "link")]_vars

\* C7 witness: export_month has passed the marking of an archive that had
\* its months row already.
C7_Witness ==
    /\ pc = "link" /\ passStart # None /\ passStart.done
    /\ Cardinality(MonthsWhere(MonthAt(idx))) = 1

\* C8: after a 429 answer the same pgn is posted again (the script neither
\* ends with an error nor moves on), whatever the number of 429 answers so
\* far, and the url export_to_lc returns is the one of the accepted import
\* of this pgn.
C8_RetryUntilAnswered ==
    /\ [][(pc = "resp" /\ import_response.status = 429 /\ lastEnd' # "crash")
             => (pc' = "post" /\ fetched' = fetched /\ gi' = gi
                   /\ lastEnd' = lastEnd)]_vars
    /\ [](pc = "insert" =>
             /\ import_response.status = 200
             /\ lc_url = import_response.url
             /\ lc_url = Len(sinkLog)
             /\ sinkLog[lc_url] = Pgn(fetched[gi]))

\* C8 witness: export_to_lc has returned a url after two or more 429 answers.
C8_Witness == pc = "insert" /\ n429 >= 2 /\ lc_url > 0

\* C9: when lichess answers with a status that is neither a success nor 429,
\* the next step ends the run: nothing is posted again, the store is as it
\* was, the game has no row, the archive gets no months row; and until
\* another run starts nothing is written or submitted.
C9_RejectHalts ==
    /\ [][(pc = "resp" /\ import_response.status \notin {200, 429})
             => /\ pc' = "idle"
                /\ lastEnd' \in {"sink", "crash"}
                /\ Store' = Store
                /\ sinkLog' = sinkLog
                /\ \A i \in 1..Len(games') : games'[i].uuid # fetched[gi]]_vars
    /\ [][pc = "idle" => (Store' = Store /\ sinkLog' = sinkLog)]_vars

\* C9 witness: a run has ended on a rejected import, with rows committed
\* before it in the store and the archive of the rejected game without its
\* months row.
C9_Witness ==
    /\ pc = "idle" /\ lastEnd = "sink"
    /\ games # <<>>
    /\ \E a \in Range(listing) :
          /\ MonthsWhere(a) = {}
          /\ \E u \in Range(src[a]) : GamesWhere(u) = {}

\* C10 as claimed: a < b exactly when a's year is less, or the years are
\* equal and a's month is less; exactly one of a < b, a == b, b < a holds.
C10_YearMajorOrder ==
    cmpRes # None =>
        /\ cmpRes.lt = ChronoLess(cmpA, cmpB)
        /\ cmpRes.gt = ChronoLess(cmpB, cmpA)
        /\ Cardinality({k \in {"lt", "eq", "gt"} : cmpRes[k]}) = 1

\* C11 as claimed: for a non-empty list most_recent_month designates the
\* chronologically latest month of the list, whatever the order of the list.
C11_ReturnsLatest ==
    (mrRes # None /\ mrList # <<>>) =>
        /\ mrRes.index + 1 \in 1..Len(mrList)
        /\ \A k \in 1..Len(mrList) :
              \/ mrList[k] = mrList[mrRes.index + 1]
              \/ ChronoLess(mrList[k], mrList[mrRes.index + 1])

\* C14: the result is white when white's code is "win", also when black's
\* is "win" too; otherwise black when black's code is "win"; otherwise draw.
C14_ResultDerivation ==
    resOut # None =>
        /\ resW = "win" => resOut.result = "white"
        /\ (resW # "win" /\ resB = "win") => resOut.result = "black"
        /\ (resW # "win" /\ resB # "win") => resOut.result = "draw"

\* C14 witness: both codes are "win" and the result derived is white.
C14_Witness ==
    resOut # None /\ resW = "win" /\ resB = "win" /\ resOut.result = "white"

\* C12 as claimed: a run over an empty archive listing ends in an error, not
\* normally, and writes nothing.
C12_EmptyListingIsError ==
    (pc = "idle" /\ runs > 0 /\ listing = <<>>) =>
        /\ lastEnd # "ok"
        /\ games = <<>> /\ months = <<>> /\ month_games = <<>>

\* what the claims call a positive integer, among the parts of the urls
PositiveInt(s) == s \in IntLiterals /\ IntOf(s) > 0

\* an archive url one of whose two trailing parts is not a positive integer
Malformed(url) ==
    \/ Len(url) < 2
    \/ ~PositiveInt(url[Len(url) - 1])
    \/ ~PositiveInt(url[Len(url)])

\* C13 as claimed: when a listed url is malformed the parsing of the listing
\* raises, so that no month of a malformed url is in the list of months the
\* run exports.
C13_MalformedRaises ==
    (refRes # None /\ \E i \in 1..Len(refList) : Malformed(refList[i]))
        => refRes.raised

\* C15: the games table never holds two rows of the same uuid, also when the
\* source serves a uuid twice, in one list or in two.
C15_OneRowPerUuid == \A u \in Uuids : Cardinality(GamesWhere(u)) <= 1

\* C15 witness: export_month returns for a list that serves twice a uuid
\* that had no row when it was called.
C15_Witness ==
    /\ PassDone /\ passStart # None
    /\ \E i, j \in 1..Len(fetched) :
          i < j /\ fetched[i] = fetched[j] /\ fetched[i] \notin passStart.rec

\* C16: no game ever has two rows in month_games, and a row of month_games
\* is never changed or removed: the game stays linked to the month it was
\* linked to first.
C16_OneLinkPerGame ==
    /\ [](\A g \in 1..Len(games) : Cardinality(MonthGamesWhere(g)) <= 1)
    /\ [][\A k \in 1..Len(month_games) :
             Len(month_games') >= k /\ month_games'[k] = month_games[k]]_vars

\* C16 witness: export_month returns for an archive whose list serves a game
\* that is linked to another month.
C16_Witness ==
    /\ PassDone /\ passStart # None
    /\ \E u \in Range(fetched) :
          /\ u \in passStart.linked
          /\ \E k \in 1..Len(month_games) :
                /\ month_games[k].game_id \in GamesWhere(u)
                /\ month_games[k].month_id # FetchOne(MonthsWhere(MonthAt(idx)))

\* C17: when a run ends normally, every game the source serves for a listed
\* archive has a row with exactly one link, also when an earlier run ended
\* after the months row was written and before the game was linked.
C17_EveryGameLinked ==
    RunDone =>
        \A a \in Range(archives) : \A u \in Range(src[a]) :
            /\ GamesWhere(u) # {}
            /\ \A g \in GamesWhere(u) : Cardinality(MonthGamesWhere(g)) = 1

\* C17 witness: the run ends normally and its last call of export_month
\* found the months row written and a game of the list with a row and no
\* link.
C17_Witness ==
    /\ RunDone /\ passStart # None /\ passStart.done
    /\ passStart.rec \ passStart.linked # {}

\* C18 as claimed: an archive is fetched only when every chronologically
\* earlier archive of the run's listing has been fetched (and, the run being
\* sequential, processed).
C18_ChronologicalOrder ==
    pc # "idle" =>
        \A i, j \in 1..Len(archives) :
            (/\ archives[i] \in fetchedRun
             /\ ChronoLess(MonthAt(j), MonthAt(i))) => archives[j] \in fetchedRun

\* C19: when the games endpoint answers with an error status, the next step
\* ends the run: nothing is fetched again, nothing is submitted, no row is
\* written, and the store is as it was before the request.
C19_FetchFailureHalts ==
    [][(pc = "got" /\ games_response >= 400)
          => /\ pc' = "idle"
             /\ lastEnd' \in {"fetch", "crash"}
             /\ Store' = Store
             /\ sinkLog' = sinkLog]_vars

\* C19 witness: a run has ended on a failed fetch, with the rows of an
\* archive processed before in the store and an archive without its row.
C19_Witness ==
    /\ pc = "idle" /\ lastEnd = "fetch"
    /\ months # <<>> /\ games # <<>>
    /\ \E a \in Range(listing) : MonthsWhere(archive_url_extract_month(a)) = {}

\* imports lichess accepted whose row was never committed, all games together
RECURSIVE SumLost(_)
SumLost(S) ==
    IF S = {} THEN 0
    ELSE LET u == CHOOSE x \in S : TRUE IN lost[u] + SumLost(S \ {u})

\* C20: every row of games carries the url of an import of its pgn that
\* lichess accepted, no two rows the same one, and every accepted import has
\* its row, but those lost to a run that ended before the commit and the one
\* under way: a game is submitted only when its predecessor is committed.
C20_RowsCarryAcceptedUrl ==
    /\ \A i \in 1..Len(games) :
          /\ games[i].lc_url \in 1..Len(sinkLog)
          /\ sinkLog[games[i].lc_url] = games[i].pgn
          /\ games[i].pgn = Pgn(games[i].uuid)
    /\ Cardinality({games[i].lc_url : i \in 1..Len(games)}) = Len(games)
    /\ Len(sinkLog) = Len(games) + SumLost(Uuids) + (IF InFlight THEN 1 ELSE 0)

\* C20 witness: a second game is being submitted after the row of a first
\* one was committed, and an import was lost to a crash before.
C20_Witness ==
    /\ pc = "post" /\ Len(games) >= 1
    /\ SumLost(Uuids) >= 1

====
